---- MODULE Spec2Model ----
(***************************************************************************)
(* A model of the upload request/response cycle of the repository:         *)
(*   - the upload handler, src/app/api/upload/route.ts (POST, processFiles)*)
(*   - the upload client, src/unnamed/part_001 (UploadDialog)              *)
(*                                                                         *)
(* Every request r has its own handler instance (the closure variables of  *)
(* POST) and its own handleSubmit invocation on the client.  A handler     *)
(* step is the resolution of the await the handler is suspended at,        *)
(* followed by the synchronous code up to the next await.                  *)
(***************************************************************************)
EXTENDS Integers, Sequences, FiniteSets, TLC

\* ------------------------------------------------------------------ bounds
MaxEntries == 3
MaxReq == 2
MaxSelected == 1
\* files selected for the single upload of SpecUpload
MaxUpload == 2
\* entries of each of the two concurrent requests of SpecPair
MaxPairEntries == 1

\* --------------------------------------------------------------- constants
MAX_FILE_SIZE == 5 * 1024 * 1024

Requests == 1..MaxReq
FileNames == {"a.txt", "b.txt"}
\* sizes on both sides of the limit, the limit itself included
FileSizes == {MAX_FILE_SIZE, MAX_FILE_SIZE + 1}

\* A form entry under the field name "files": a File, or a stray string field.
FileEntries == [kind : {"file"}, name : FileNames, size : FileSizes]
StringEntries == {[kind |-> "string", name |-> "", size |-> 0]}
Entries == FileEntries \cup StringEntries

SeqsUpTo(S, n) == UNION {[1..k -> S] : k \in 0..n}
Forms == SeqsUpTo(Entries, MaxEntries)

VARIABLES
  \* ---- the request, as the transport sees it
  form,            \* form[r]: the entries posted under "files"
  bodyOk,          \* bodyOk[r]: request.formData() will parse the body
  disconnected,    \* disconnected[r]: the client's connection is gone
  httpStatus,      \* httpStatus[r]: 0 (no response yet), 200, 400
  \* ---- the handler instance of request r (closure of POST)
  hpc,             \* the await the handler is suspended at
  files,           \* formData.getAll("files")
  idx,             \* position of the for..of loop in files
  processedFiles,  \* processedFiles of processFiles
  processedCount,  \* processedCount of processFiles
  aborted,         \* abortController.signal.aborted
  streamState,     \* the TransformStream: none, open, closed, errored
  stream,          \* the lines the writer has written, in order
  disk,            \* UPLOAD_DIR: name -> <<r, i>> of the last write, <<0, 0>> if absent
  \* ---- history of the handler's file operations
  readStarted,     \* indices whose file.arrayBuffer() was called
  wrote,           \* indices whose writeFile() succeeded
  ioFail,          \* indices whose arrayBuffer() or writeFile() rejected
  \* ---- the client component (UploadDialog)
  isUploading,
  selectedFiles,
  error,
  uiProcessedFiles, \* the processedFiles state of the component
  completeCalls,    \* number of onUploadComplete() calls
  cpc,              \* cpc[r]: where handleSubmit invocation r is suspended
  rpos,             \* rpos[r]: how far invocation r has read the body
  \* ---- history of the component's line parsing
  parseFailed       \* some line has failed JSON.parse ("Error parsing JSON")

hvars == <<form, bodyOk, disconnected, httpStatus, hpc, files, idx, processedFiles,
           processedCount, aborted, streamState, stream, disk, readStarted, wrote, ioFail>>
cvars == <<isUploading, selectedFiles, error, uiProcessedFiles, completeCalls, cpc, rpos,
           parseFailed>>
vars == <<hvars, cvars>>

\* ------------------------------------------------------- handler helpers

\* file instanceof File
IsFile(e) == e.kind = "file"

\* buffer.length > MAX_FILE_SIZE
\* (IsOversized_Inclusive: the comparison written >=)
IsOversized_Inclusive(size) == size >= MAX_FILE_SIZE
IsOversized(size) == size > MAX_FILE_SIZE

\* Math.round((processedCount / files.length) * 100): round half up
\* (Percent_Floor: Math.floor in its place)
Percent_Floor(count, total) == (100 * count) \div total
Percent(count, total) == (200 * count + total) \div (2 * total)

\* abortController.signal.aborted, tested before each file
\* (AbortCheck_Missing: the loop without the test)
AbortCheck_Missing(r) == FALSE
AbortCheck(r) == aborted[r]

\* !files || files.length === 0
NoFiles(fs) == Len(fs) = 0

FileRecord(filename, status, message) ==
  [filename |-> filename, status |-> status, message |-> message]

\* the record pushed in the size-limit branch
OversizeRecord(filename) == FileRecord(filename, "failed", "File size exceeds limit")

\* the record pushed after a successful write
CompletedRecord(filename) == FileRecord(filename, "completed", "File processed successfully")

\* the catch block of the per-file try
\* (CatchPush_Rethrow: a catch block that records nothing)
CatchPush_Rethrow(pf, filename) == pf
CatchPush(pf, filename) ==
  Append(pf, FileRecord(filename, "failed", "Failed to process file"))

\* the progress line of the size-limit branch (processedFiles already holds the
\* failed record when the line is built)
OversizeProgress(filename, count, fs, pf) ==
  [type |-> "progress", current_file |-> filename, processed_count |-> count,
   total_files |-> Len(fs), percent |-> Percent(count, Len(fs)),
   processed_files |-> Append(pf, FileRecord(filename, "completed",
                          "File processed but failed to upload due to size limit"))]

\* progressUpdate
\* (ProgressUpdate_StaleCount: the line built before processedCount++)
ProgressUpdate_StaleCount(filename, count, fs, pf) ==
  [type |-> "progress", current_file |-> filename, processed_count |-> count - 1,
   total_files |-> Len(fs), percent |-> Percent(count, Len(fs)),
   processed_files |-> Append(pf, CompletedRecord(filename))]
ProgressUpdate(filename, count, fs, pf) ==
  [type |-> "progress", current_file |-> filename, processed_count |-> count,
   total_files |-> Len(fs), percent |-> Percent(count, Len(fs)),
   processed_files |-> Append(pf, CompletedRecord(filename))]

\* `let processedCount = 0` is local to processFiles: the counter handler
\* instance r increments and reads is its own
\* (CounterOf_Shared: a counter at module level, one for every request)
CounterOf_Shared(r) == 1
CounterOf(r) == r

\* completeMessage
CompleteMessage(pf) == [type |-> "complete", status |-> "success", files |-> pf]

ErrorMessage == [type |-> "error", message |-> "Upload interrupted or failed unexpectedly"]

\* The for..of loop from position i: entries that are not Files are skipped
\* synchronously; the result is the position of the next File, or Len(fs) + 1.
RECURSIVE NextFileIdx(_, _)
NextFileIdx(fs, i) ==
  IF i > Len(fs) THEN Len(fs) + 1
  ELSE IF IsFile(fs[i]) THEN i
  ELSE NextFileIdx(fs, i + 1)

\* where the loop leaves to when it ends or breaks: the write of completeMessage
\* (LoopExit_Return: leaving straight to writer.close())
LoopExit_Return == "close"
LoopExit == "writeComplete"

\* The loop head, run synchronously from position `from` of `fs` up to the next
\* await: either the arrayBuffer() of the next File, or, when the list is
\* exhausted or the abort check breaks, the write of the complete message.
EnterLoop(r, fs, from) ==
  LET j == NextFileIdx(fs, from) IN
  IF j > Len(fs) \/ AbortCheck(r)
  THEN /\ hpc' = [hpc EXCEPT ![r] = LoopExit]
       /\ idx' = [idx EXCEPT ![r] = j]
       /\ readStarted' = readStarted
  ELSE /\ hpc' = [hpc EXCEPT ![r] = "arrayBuffer"]
       /\ idx' = [idx EXCEPT ![r] = j]
       /\ readStarted' = [readStarted EXCEPT ![r] = @ \cup {j}]

\* After the catch block the for..of loop goes on with the next entry.
\* (AfterCatch_Abort: a try/catch around the whole loop, which a failure leaves)
AfterCatch_Abort(r, fs, from) == EnterLoop(r, fs, Len(fs) + 1)
AfterCatch(r, fs, from) == EnterLoop(r, fs, from)

\* ------------------------------------------------------------------- Init

Init ==
  /\ form = [r \in Requests |-> <<>>]
  /\ bodyOk = [r \in Requests |-> TRUE]
  /\ disconnected = [r \in Requests |-> FALSE]
  /\ httpStatus = [r \in Requests |-> 0]
  /\ hpc = [r \in Requests |-> "idle"]
  /\ files = [r \in Requests |-> <<>>]
  /\ idx = [r \in Requests |-> 0]
  /\ processedFiles = [r \in Requests |-> <<>>]
  /\ processedCount = [r \in Requests |-> 0]
  /\ aborted = [r \in Requests |-> FALSE]
  /\ streamState = [r \in Requests |-> "none"]
  /\ stream = [r \in Requests |-> <<>>]
  /\ disk = [n \in FileNames |-> <<0, 0>>]
  /\ readStarted = [r \in Requests |-> {}]
  /\ wrote = [r \in Requests |-> {}]
  /\ ioFail = [r \in Requests |-> {}]
  /\ isUploading = FALSE
  /\ selectedFiles = <<>>
  /\ error = "null"
  /\ uiProcessedFiles = <<>>
  /\ completeCalls = 0
  /\ parseFailed = FALSE
  /\ cpc = [r \in Requests |-> "none"]
  /\ rpos = [r \in Requests |-> 0]

\* ------------------------------------------------------ transport actions

\* A request arrives at the endpoint from some HTTP client: any multipart
\* form, or a body formData() cannot parse.
ArriveWith(r, F) ==
  /\ hpc[r] = "idle"
  /\ \E f \in F, ok \in BOOLEAN :
       /\ form' = [form EXCEPT ![r] = f]
       /\ bodyOk' = [bodyOk EXCEPT ![r] = ok]
  /\ hpc' = [hpc EXCEPT ![r] = "received"]
  /\ UNCHANGED <<disconnected, httpStatus, files, idx, processedFiles, processedCount,
                 aborted, streamState, stream, disk, readStarted, wrote, ioFail, cvars>>

Arrive(r) == ArriveWith(r, Forms)

\* The client's connection goes away while the response is being streamed.
Disconnect(r) ==
  /\ httpStatus[r] = 200
  /\ ~disconnected[r]
  /\ hpc[r] # "done" \/ cpc[r] \in {"fetch", "read"}
  /\ disconnected' = [disconnected EXCEPT ![r] = TRUE]
  /\ UNCHANGED <<form, bodyOk, httpStatus, hpc, files, idx, processedFiles, processedCount,
                 aborted, streamState, stream, disk, readStarted, wrote, ioFail, cvars>>

\* request.signal's "abort" listener runs: abortController.abort()
AbortListener(r) ==
  /\ disconnected[r]
  /\ ~aborted[r]
  /\ aborted' = [aborted EXCEPT ![r] = TRUE]
  /\ UNCHANGED <<form, bodyOk, disconnected, httpStatus, hpc, files, idx, processedFiles,
                 processedCount, streamState, stream, disk, readStarted, wrote, ioFail, cvars>>

\* The transport cancels the response body (stream.readable) of a connection
\* that is gone: the writable side is errored and every later write rejects.
CancelStream(r) ==
  /\ disconnected[r]
  /\ streamState[r] = "open"
  /\ streamState' = [streamState EXCEPT ![r] = "errored"]
  /\ UNCHANGED <<form, bodyOk, disconnected, httpStatus, hpc, files, idx, processedFiles,
                 processedCount, aborted, stream, disk, readStarted, wrote, ioFail, cvars>>

\* -------------------------------------------------------- handler actions

\* POST up to its return: the 400 responses, or the stream opened and
\* processFiles() run to its first await.
Post(r) ==
  /\ hpc[r] = "received"
  /\ \/ /\ ~bodyOk[r]
        /\ httpStatus' = [httpStatus EXCEPT ![r] = 400]
        /\ hpc' = [hpc EXCEPT ![r] = "rejected"]
        /\ UNCHANGED <<files, idx, streamState, readStarted>>
     \/ /\ bodyOk[r]
        /\ NoFiles(form[r])
        /\ httpStatus' = [httpStatus EXCEPT ![r] = 400]
        /\ hpc' = [hpc EXCEPT ![r] = "rejected"]
        /\ files' = [files EXCEPT ![r] = form[r]]
        /\ UNCHANGED <<idx, streamState, readStarted>>
     \/ /\ bodyOk[r]
        /\ ~NoFiles(form[r])
        /\ httpStatus' = [httpStatus EXCEPT ![r] = 200]
        /\ files' = [files EXCEPT ![r] = form[r]]
        /\ streamState' = [streamState EXCEPT ![r] = "open"]
        /\ EnterLoop(r, form[r], 1)
  /\ UNCHANGED <<form, bodyOk, disconnected, processedFiles, processedCount, aborted,
                 stream, disk, wrote, ioFail, cvars>>

\* await file.arrayBuffer() settles.  Rejected: the catch block pushes the
\* generic failed record and the loop goes on.  Resolved: the size check; an
\* oversized file is counted, recorded as failed and its progress line handed
\* to the writer; any other file is handed to writeFile().
ArrayBufferDone(r) ==
  /\ hpc[r] = "arrayBuffer"
  /\ LET file == files[r][idx[r]] IN
     \/ /\ processedFiles' = [processedFiles EXCEPT ![r] = CatchPush(@, file.name)]
        /\ ioFail' = [ioFail EXCEPT ![r] = @ \cup {idx[r]}]
        /\ AfterCatch(r, files[r], idx[r] + 1)
        /\ UNCHANGED processedCount
     \/ /\ IsOversized(file.size)
        /\ processedCount' = [processedCount EXCEPT ![CounterOf(r)] = @ + 1]
        /\ processedFiles' = [processedFiles EXCEPT ![r] = Append(@, OversizeRecord(file.name))]
        /\ hpc' = [hpc EXCEPT ![r] = "writeOversize"]
        /\ UNCHANGED <<idx, readStarted, ioFail>>
     \/ /\ ~IsOversized(file.size)
        /\ hpc' = [hpc EXCEPT ![r] = "writeFile"]
        /\ UNCHANGED <<idx, readStarted, ioFail, processedCount, processedFiles>>
  /\ UNCHANGED <<form, bodyOk, disconnected, httpStatus, files, aborted, streamState,
                 stream, disk, wrote, cvars>>

\* await writer.write(progress line of the size-limit branch) settles.
\* Resolved: the line is on the stream; continue.  Rejected (the stream is
\* errored): the catch block pushes a second, generic failed record.
WriteOversizeDone(r) ==
  /\ hpc[r] = "writeOversize"
  /\ LET file == files[r][idx[r]] IN
     IF streamState[r] = "open"
     THEN /\ stream' = [stream EXCEPT ![r] =
                 Append(@, OversizeProgress(file.name, processedCount[CounterOf(r)], files[r],
                                            processedFiles[r]))]
          /\ UNCHANGED processedFiles
          /\ EnterLoop(r, files[r], idx[r] + 1)
     ELSE /\ processedFiles' = [processedFiles EXCEPT ![r] = CatchPush(@, file.name)]
          /\ UNCHANGED stream
          /\ AfterCatch(r, files[r], idx[r] + 1)
  /\ UNCHANGED <<form, bodyOk, disconnected, httpStatus, files, processedCount, aborted,
                 streamState, disk, wrote, ioFail, cvars>>

\* await writeFile(filePath, buffer) settles.  Resolved: the file is in
\* UPLOAD_DIR under its name, the count is incremented and progressUpdate is
\* handed to the writer.  Rejected: the catch block.
WriteFileDone(r) ==
  /\ hpc[r] = "writeFile"
  /\ LET file == files[r][idx[r]] IN
     \/ /\ disk' = [disk EXCEPT ![file.name] = <<r, idx[r]>>]
        /\ wrote' = [wrote EXCEPT ![r] = @ \cup {idx[r]}]
        /\ processedCount' = [processedCount EXCEPT ![CounterOf(r)] = @ + 1]
        /\ hpc' = [hpc EXCEPT ![r] = "writeProgress"]
        /\ UNCHANGED <<idx, readStarted, ioFail, processedFiles>>
     \/ /\ processedFiles' = [processedFiles EXCEPT ![r] = CatchPush(@, file.name)]
        /\ ioFail' = [ioFail EXCEPT ![r] = @ \cup {idx[r]}]
        /\ AfterCatch(r, files[r], idx[r] + 1)
        /\ UNCHANGED <<disk, wrote, processedCount>>
  /\ UNCHANGED <<form, bodyOk, disconnected, httpStatus, files, aborted, streamState,
                 stream, cvars>>

\* await writer.write(progressUpdate) settles.  Resolved: the line is on the
\* stream and the completed record is pushed.  Rejected: the catch block.
WriteProgressDone(r) ==
  /\ hpc[r] = "writeProgress"
  /\ LET file == files[r][idx[r]] IN
     IF streamState[r] = "open"
     THEN /\ stream' = [stream EXCEPT ![r] =
                 Append(@, ProgressUpdate(file.name, processedCount[CounterOf(r)], files[r],
                                          processedFiles[r]))]
          /\ processedFiles' = [processedFiles EXCEPT ![r] = Append(@, CompletedRecord(file.name))]
          /\ EnterLoop(r, files[r], idx[r] + 1)
     ELSE /\ processedFiles' = [processedFiles EXCEPT ![r] = CatchPush(@, file.name)]
          /\ UNCHANGED stream
          /\ AfterCatch(r, files[r], idx[r] + 1)
  /\ UNCHANGED <<form, bodyOk, disconnected, httpStatus, files, processedCount, aborted,
                 streamState, disk, wrote, ioFail, cvars>>

\* await writer.write(completeMessage) settles.  Rejected: processFiles()
\* rejects and its .catch() handler starts writing the error line.
WriteCompleteDone(r) ==
  /\ hpc[r] = "writeComplete"
  /\ IF streamState[r] = "open"
     THEN /\ stream' = [stream EXCEPT ![r] = Append(@, CompleteMessage(processedFiles[r]))]
          /\ hpc' = [hpc EXCEPT ![r] = "close"]
     ELSE /\ hpc' = [hpc EXCEPT ![r] = "catchWrite"]
          /\ UNCHANGED stream
  /\ UNCHANGED <<form, bodyOk, disconnected, httpStatus, files, idx, processedFiles,
                 processedCount, aborted, streamState, disk, readStarted, wrote, ioFail, cvars>>

\* await writer.close() of processFiles settles.
CloseDone(r) ==
  /\ hpc[r] = "close"
  /\ IF streamState[r] = "open"
     THEN /\ streamState' = [streamState EXCEPT ![r] = "closed"]
          /\ hpc' = [hpc EXCEPT ![r] = "done"]
     ELSE /\ hpc' = [hpc EXCEPT ![r] = "catchWrite"]
          /\ UNCHANGED streamState
  /\ UNCHANGED <<form, bodyOk, disconnected, httpStatus, files, idx, processedFiles,
                 processedCount, aborted, stream, disk, readStarted, wrote, ioFail, cvars>>

\* (CatchDone_Unhandled: processFiles() without a .catch() handler: the
\* rejection is handled by nobody and nothing more runs)
CatchDone_Unhandled(r) ==
  /\ hpc[r] \in {"catchWrite", "catchClose"}
  /\ UNCHANGED vars
\* The .catch() handler of processFiles(): the await of the error line's
\* write, then of writer.close(); a rejection of either is caught and logged.
CatchDone(r) ==
  /\ hpc[r] \in {"catchWrite", "catchClose"}
  /\ IF streamState[r] # "open"
     THEN /\ hpc' = [hpc EXCEPT ![r] = "done"]
          /\ UNCHANGED <<stream, streamState>>
     ELSE IF hpc[r] = "catchWrite"
     THEN /\ stream' = [stream EXCEPT ![r] = Append(@, ErrorMessage)]
          /\ hpc' = [hpc EXCEPT ![r] = "catchClose"]
          /\ UNCHANGED streamState
     ELSE /\ streamState' = [streamState EXCEPT ![r] = "closed"]
          /\ hpc' = [hpc EXCEPT ![r] = "done"]
          /\ UNCHANGED stream
  /\ UNCHANGED <<form, bodyOk, disconnected, httpStatus, files, idx, processedFiles,
                 processedCount, aborted, disk, readStarted, wrote, ioFail, cvars>>

HandlerStep(r) ==
  \/ Post(r)
  \/ ArrayBufferDone(r)
  \/ WriteOversizeDone(r)
  \/ WriteFileDone(r)
  \/ WriteProgressDone(r)
  \/ WriteCompleteDone(r)
  \/ CloseDone(r)
  \/ CatchDone(r)

\* ------------------------------------------------- the handler on its own
\* One request from an arbitrary HTTP client, processed by the handler.

Next ==
  \/ Arrive(1)
  \/ Disconnect(1)
  \/ AbortListener(1)
  \/ CancelStream(1)
  \/ HandlerStep(1)

Spec == Init /\ [][Next]_vars

\* ------------------------------------------------------- the upload client

\* The client's view of the response body: position 2k is the end of line k
\* (of its JSON text, before or after its "\n"), position 2k+1 is somewhere
\* strictly inside the JSON text of line k+1.  A read() returns the bytes from
\* rpos up to some later position q.  Each chunk is decoded and split on its
\* own: the lines lying wholly inside the chunk are parsed as records; a piece
\* of a line cut by a chunk boundary either fails JSON.parse (logged, skipped)
\* or parses to a value with no `type`, and changes nothing.
FirstWhole(p) == (p + 1) \div 2 + 1
LastWhole(q) == q \div 2

\* a piece of a line cut by a chunk boundary: not a record
Fragment == [type |-> "fragment"]

\* chunk.split("\n").filter(...) of the chunk from position p to position q of
\* the lines s: the tail of a line cut before p, the whole lines, the head of
\* a line cut after q
ChunkPieces(s, p, q) ==
  (IF p % 2 = 1 THEN <<Fragment>> ELSE <<>>)
  \o SubSeq(s, FirstWhole(p), LastWhole(q))
  \o (IF q % 2 = 1 THEN <<Fragment>> ELSE <<>>)

\* the inner catch: the line that failed to parse is logged and skipped
\* (OnParseError_Reset: a catch that also clears the displayed list)
OnParseError_Reset(st) == [st EXCEPT !.ui = <<>>]
OnParseError(st) == st

\* the body of the for..of loop over the lines of one chunk, applied to the
\* component's state st = [ui, up, calls]
ApplyLine(st, data) ==
  IF data.type = "fragment"
  THEN OnParseError(st)
  ELSE IF data.type = "progress"
  THEN [st EXCEPT !.ui = data.processed_files]
  ELSE IF data.type = "complete"
  THEN [ui |-> data.files, up |-> FALSE, calls |-> st.calls + 1]
  ELSE st

RECURSIVE ApplyLines(_, _)
ApplyLines(st, lines) ==
  IF Len(lines) = 0 THEN st ELSE ApplyLines(ApplyLine(st, Head(lines)), Tail(lines))

\* lowest request number not yet used by the client
FreshRequest(r) ==
  /\ cpc[r] = "none"
  /\ hpc[r] = "idle"
  /\ \A q \in Requests : q < r => cpc[q] # "none"

\* onDrop(acceptedFiles): the files are appended to the selection as they are
\* (n bounds the length of the selection)
onDropUpTo(n) ==
  \E fs \in SeqsUpTo(FileEntries, n) :
    /\ Len(fs) >= 1
    /\ Len(selectedFiles) + Len(fs) <= n
    /\ selectedFiles' = selectedFiles \o fs
    /\ UNCHANGED <<hvars, isUploading, error, uiProcessedFiles, completeCalls, cpc, rpos,
                   parseFailed>>

onDrop == onDropUpTo(MaxSelected)

\* removeFile(fileToRemove): the body is empty
removeFile ==
  /\ \E i \in 1..Len(selectedFiles) : TRUE
  /\ UNCHANGED vars

\* the guard of the submit button and of handleSubmit
CanSubmit == Len(selectedFiles) # 0

\* handleSubmit up to `await fetch(...)`: the form is built from the current
\* selection and the request is sent (and may reach the server damaged)
handleSubmit(r) ==
  /\ FreshRequest(r)
  /\ CanSubmit
  /\ isUploading' = TRUE
  /\ error' = "null"
  /\ form' = [form EXCEPT ![r] = selectedFiles]
  /\ \E ok \in BOOLEAN : bodyOk' = [bodyOk EXCEPT ![r] = ok]
  /\ hpc' = [hpc EXCEPT ![r] = "received"]
  /\ cpc' = [cpc EXCEPT ![r] = "fetch"]
  /\ UNCHANGED <<disconnected, httpStatus, files, idx, processedFiles, processedCount,
                 aborted, streamState, stream, disk, readStarted, wrote, ioFail,
                 selectedFiles, uiProcessedFiles, completeCalls, rpos, parseFailed>>

\* the catch block of handleSubmit
CatchSubmit(r) ==
  /\ error' = "Upload failed"
  /\ isUploading' = FALSE
  /\ cpc' = [cpc EXCEPT ![r] = "done"]
  /\ UNCHANGED <<selectedFiles, uiProcessedFiles, completeCalls, rpos, parseFailed>>

\* await fetch(...) rejects: the request never reaches the handler, or the
\* connection is lost before the response arrives
FetchReject(r) ==
  /\ cpc[r] = "fetch"
  /\ hpc[r] = "received" \/ disconnected[r]
  /\ hpc' = [hpc EXCEPT ![r] = IF @ = "received" THEN "lost" ELSE @]
  /\ CatchSubmit(r)
  /\ UNCHANGED <<form, bodyOk, disconnected, httpStatus, files, idx, processedFiles,
                 processedCount, aborted, streamState, stream, disk, readStarted, wrote, ioFail>>

\* await fetch(...) resolves with the handler's response: a status that is not
\* ok is thrown into the catch block, otherwise the body's reader is taken
FetchResolve(r) ==
  /\ cpc[r] = "fetch"
  /\ httpStatus[r] # 0
  /\ IF httpStatus[r] # 200
     THEN CatchSubmit(r)
     ELSE /\ cpc' = [cpc EXCEPT ![r] = "read"]
          /\ UNCHANGED <<isUploading, selectedFiles, error, uiProcessedFiles, completeCalls, rpos,
                         parseFailed>>
  /\ UNCHANGED hvars

\* await reader.read() resolves with a chunk: every complete line of it is
\* parsed and applied
ReadChunk(r) ==
  /\ cpc[r] = "read"
  /\ \E q \in (rpos[r] + 1)..(2 * Len(stream[r])) :
       LET st == ApplyLines([ui |-> uiProcessedFiles, up |-> isUploading, calls |-> completeCalls],
                            ChunkPieces(stream[r], rpos[r], q))
       IN /\ rpos' = [rpos EXCEPT ![r] = q]
          /\ uiProcessedFiles' = st.ui
          /\ isUploading' = st.up
          /\ completeCalls' = st.calls
          /\ parseFailed' = (parseFailed \/ rpos[r] % 2 = 1 \/ q % 2 = 1)
  /\ UNCHANGED <<hvars, selectedFiles, error, cpc>>

\* await reader.read() resolves with done: the loop is left and handleSubmit
\* returns
ReadDone(r) ==
  /\ cpc[r] = "read"
  /\ streamState[r] = "closed"
  /\ rpos[r] = 2 * Len(stream[r])
  /\ cpc' = [cpc EXCEPT ![r] = "done"]
  /\ UNCHANGED <<hvars, isUploading, selectedFiles, error, uiProcessedFiles, completeCalls, rpos,
                 parseFailed>>

\* await reader.read() rejects: the connection was lost mid-stream
ReadReject(r) ==
  /\ cpc[r] = "read"
  /\ disconnected[r]
  /\ CatchSubmit(r)
  /\ UNCHANGED hvars

ClientStep(r) ==
  \/ handleSubmit(r)
  \/ FetchReject(r)
  \/ FetchResolve(r)
  \/ ReadChunk(r)
  \/ ReadDone(r)
  \/ ReadReject(r)

\* --------------------------------------------- the client and the handler
\* The component, its handleSubmit invocations, and one handler instance per
\* request sent.

NextClient ==
  \/ onDrop
  \/ \E r \in Requests :
       \/ ClientStep(r)
       \/ HandlerStep(r)
       \/ Disconnect(r)
       \/ AbortListener(r)
       \/ CancelStream(r)

SpecClient == Init /\ [][NextClient]_vars

\* ------------------------------------------------------ one upload, alone
\* The component with a selection of up to MaxUpload files and a single
\* handleSubmit invocation, with the handler instance of its request.

NextUpload ==
  \/ onDropUpTo(MaxUpload)
  \/ removeFile
  \/ ClientStep(1)
  \/ HandlerStep(1)
  \/ Disconnect(1)
  \/ AbortListener(1)
  \/ CancelStream(1)

SpecUpload == Init /\ [][NextUpload]_vars

\* The handler's awaits settle: file reads and disk writes end, and a write
\* to the stream ends when the transport takes the chunk or cancels the body.
FairSpec == Init /\ [][Next]_vars /\ WF_vars(HandlerStep(1))

\* ------------------------------------------------ two requests at once
\* Two requests from HTTP clients, each with up to MaxPairEntries entries,
\* processed by two handler instances whose steps interleave freely.

PairForms == SeqsUpTo(Entries, MaxPairEntries)

NextPair ==
  \E r \in Requests :
    \/ ArriveWith(r, PairForms)
    \/ HandlerStep(r)
    \/ Disconnect(r)
    \/ AbortListener(r)
    \/ CancelStream(r)

SpecPair == Init /\ [][NextPair]_vars

\* ------------------------------------------------------ claims: vocabulary

Last(s) == s[Len(s)]

\* the positions of the actual files of a form, in input order
FileIdxSeq(fs) == SelectSeq([i \in 1..Len(fs) |-> i], LAMBDA i : fs[i].kind = "file")

ProgressLines(s) == SelectSeq(s, LAMBDA l : l.type = "progress")
CompleteLines(s) == SelectSeq(s, LAMBDA l : l.type = "complete")
ErrorLines(s) == SelectSeq(s, LAMBDA l : l.type = "error")

\* p is count/total*100 rounded to the nearest integer, halves up
IsRound(p, count, total) ==
  /\ p \in Int
  /\ 2 * total * p <= 200 * count + total
  /\ 200 * count + total < 2 * total * (p + 1)

WithinLimit(e) == e.size <= 5242880

\* the handler of request r has finished: the stream path ran to its end
Ended(r) == hpc[r] = "done"

\* ------------------------------------------------------------------ C1
AllSucceed(r) ==
  /\ bodyOk[r]
  /\ Len(form[r]) >= 1
  /\ \A i \in 1..Len(form[r]) : form[r][i].kind = "file" /\ WithinLimit(form[r][i])
  /\ ioFail[r] = {}
  /\ ~disconnected[r]

\* C1: a request of N actual files, all within the limit, every read and disk
\* write succeeding and the client staying connected, ends with exactly N
\* progress lines followed by one complete line; the i-th progress line has
\* processed_count = i, total_files = N and percent = round(i/N*100); the
\* complete line lists N records, all completed, in input order.
C1_AllSucceedStream ==
  \A r \in Requests :
    (Ended(r) /\ AllSucceed(r)) =>
      LET N == Len(form[r])
          s == stream[r]
      IN /\ Len(s) = N + 1
         /\ \A i \in 1..N :
              /\ s[i].type = "progress"
              /\ s[i].processed_count = i
              /\ s[i].total_files = N
              /\ IsRound(s[i].percent, i, N)
              /\ s[i].current_file = form[r][i].name
         /\ s[N + 1].type = "complete"
         /\ Len(s[N + 1].files) = N
         /\ \A i \in 1..N :
              /\ s[N + 1].files[i].status = "completed"
              /\ s[N + 1].files[i].filename = form[r][i].name

C1_Witness ==
  \E r \in Requests :
    /\ Ended(r) /\ AllSucceed(r)
    /\ Len(form[r]) = 3
    /\ Len(stream[r]) = 4
    /\ stream[r][2].percent = 67

\* ------------------------------------------------------------------ C2
\* the handler's record list holds exactly one terminal record per submitted
\* file, in input order
OneTerminalRecordPerFile(r) ==
  LET F == FileIdxSeq(form[r])
      pf == processedFiles[r]
  IN /\ Len(pf) = Len(F)
     /\ \A k \in 1..Len(F) :
          /\ pf[k].filename = form[r][F[k]].name
          /\ pf[k].status \in {"completed", "failed"}

\* C2 as claimed: when the stream ends, the record list holds exactly one
\* terminal record per submitted file, in every run, client aborts included.
C2_OneRecordPerFile_AnyRun ==
  \A r \in Requests : Ended(r) => OneTerminalRecordPerFile(r)

\* C2 amended: in every run in which no abort is signalled and the response
\* stream is not cancelled (oversized files and failing reads and disk writes
\* included), the files list of the complete line holds exactly one terminal
\* record per submitted file.
C2_OneRecordPerFile_NoAbort ==
  \A r \in Requests :
    (Ended(r) /\ ~aborted[r] /\ streamState[r] = "closed") =>
      /\ OneTerminalRecordPerFile(r)
      /\ Len(stream[r]) >= 1
      /\ Last(stream[r]).type = "complete"
      /\ Last(stream[r]).files = processedFiles[r]

C2_Witness ==
  \E r \in Requests :
    /\ Ended(r) /\ ~aborted[r] /\ streamState[r] = "closed"
    /\ Len(form[r]) = 3
    /\ ioFail[r] # {}
    /\ \E i \in 1..3 : form[r][i].kind = "file" /\ ~WithinLimit(form[r][i])
    /\ \E i \in 1..3 : i \in wrote[r]

\* ------------------------------------------------------------------ C3
\* C3 as claimed: every opened stream ends with exactly one complete line,
\* which is its last line.
C3_ExactlyOneComplete_AnyRun ==
  \A r \in Requests :
    Ended(r) =>
      /\ Len(CompleteLines(stream[r])) = 1
      /\ Last(stream[r]).type = "complete"

\* C3 amended: at most one complete line is ever written and no line is ever
\* written after it; exactly one is written in every request whose stream is
\* not cancelled by the client's disconnect.
C3_CompleteIsLast ==
  \A r \in Requests :
    /\ \A i \in 1..Len(stream[r]) : stream[r][i].type = "complete" => i = Len(stream[r])
    /\ (Ended(r) /\ streamState[r] = "closed") =>
         /\ Len(CompleteLines(stream[r])) = 1
         /\ Last(stream[r]).type = "complete"

C3_Witness ==
  \E r \in Requests :
    /\ Ended(r) /\ streamState[r] = "closed"
    /\ Len(stream[r]) = 3
    /\ aborted[r]

\* ------------------------------------------------------------------ C4
SomeOversized(r) ==
  /\ bodyOk[r]
  /\ \A i \in 1..Len(form[r]) : form[r][i].kind = "file"
  /\ \E i \in 1..Len(form[r]) : ~WithinLimit(form[r][i])
  /\ ioFail[r] = {}
  /\ ~disconnected[r]

\* C4: in a request of N files of which at least one exceeds the limit (the
\* others' reads and writes succeeding, the client staying connected), each
\* oversized file is listed as failed with the size-limit message and is never
\* written to disk, every other file is written to disk and listed as
\* completed, and exactly N progress lines are emitted.
C4_OversizedFailOthersPersist ==
  \A r \in Requests :
    (Ended(r) /\ SomeOversized(r)) =>
      LET N == Len(form[r])
          fl == Last(stream[r]).files
      IN /\ Last(stream[r]).type = "complete"
         /\ Len(fl) = N
         /\ Len(ProgressLines(stream[r])) = N
         /\ \A i \in 1..N :
              IF WithinLimit(form[r][i])
              THEN /\ i \in wrote[r]
                   /\ fl[i] = [filename |-> form[r][i].name, status |-> "completed",
                               message |-> "File processed successfully"]
              ELSE /\ i \notin wrote[r]
                   /\ disk[form[r][i].name] # <<r, i>>
                   /\ fl[i] = [filename |-> form[r][i].name, status |-> "failed",
                               message |-> "File size exceeds limit"]

C4_Witness ==
  \E r \in Requests :
    /\ Ended(r) /\ SomeOversized(r)
    /\ Len(form[r]) = 3
    /\ ~WithinLimit(form[r][2])
    /\ form[r][1].size = 5242880
    /\ wrote[r] = {1, 3}

\* ------------------------------------------------------------------ C5
GenericFailure(name) ==
  [filename |-> name, status |-> "failed", message |-> "Failed to process file"]

\* a step in which the read or the disk write of a file of request r fails
\* pushes exactly the generic failed record and goes on to the next file: it
\* leaves the loop only when no file is left or an abort has been signalled
FailureStepContinues(r) ==
  ioFail'[r] # ioFail[r] =>
    /\ processedFiles'[r] = Append(processedFiles[r], GenericFailure(files[r][idx[r]].name))
    /\ hpc'[r] \in {"arrayBuffer", "writeComplete"}
    /\ hpc'[r] = "writeComplete" =>
         \/ aborted[r]
         \/ \A j \in (idx[r] + 1)..Len(files[r]) : files[r][j].kind # "file"

\* with the client connected, a run with failing reads or writes still ends
\* with a complete line and no error line; each failed file has exactly one
\* record, the generic failure, and every file after it was processed
FailuresAreLocal(r) ==
  (Ended(r) /\ ~disconnected[r]) =>
    LET F == FileIdxSeq(form[r])
        pf == processedFiles[r]
    IN /\ Len(pf) = Len(F)
       /\ \A k \in 1..Len(F) :
            /\ F[k] \in readStarted[r]
            /\ F[k] \in ioFail[r] => pf[k] = GenericFailure(form[r][F[k]].name)
            /\ (F[k] \notin ioFail[r] /\ WithinLimit(form[r][F[k]])) =>
                 (F[k] \in wrote[r] /\ pf[k].status = "completed")
       /\ Last(stream[r]) = [type |-> "complete", status |-> "success", files |-> pf]
       /\ Len(ErrorLines(stream[r])) = 0

\* C5: a failure while reading or writing file i never aborts the batch:
\* file i gets exactly one failed record with the generic message, every file
\* after i is still processed, and the request ends with a complete line and
\* no error line.
C5_FailureNeverAbortsBatch ==
  /\ [](\A r \in Requests : FailuresAreLocal(r))
  /\ [][\A r \in Requests : FailureStepContinues(r)]_vars

C5_Witness ==
  \E r \in Requests :
    /\ Ended(r) /\ ~disconnected[r]
    /\ Len(form[r]) = 3
    /\ ioFail[r] = {1}
    /\ wrote[r] = {2, 3}
    /\ Last(stream[r]).type = "complete"

\* ------------------------------------------------------------------ C6
NoActualFile(r) == \A i \in 1..Len(form[r]) : form[r][i].kind # "file"

\* C6: a request none of whose entries under "files" is an actual file is
\* answered with HTTP 400; no stream is opened, no line is emitted and no file
\* is written.
C6_NoFileRejected ==
  \A r \in Requests :
    (httpStatus[r] # 0 /\ NoActualFile(r)) =>
      /\ httpStatus[r] = 400
      /\ streamState[r] = "none"
      /\ stream[r] = <<>>
      /\ wrote[r] = {}

\* ------------------------------------------------------------------ C7
\* C7: in every progress line percent is an integer in 0..100 equal to
\* round(processed_count/total_files*100), processed_count does not exceed
\* total_files, and percent never decreases along the stream.
C7_PercentMonotone ==
  \A r \in Requests :
    LET p == ProgressLines(stream[r]) IN
    \A i \in 1..Len(p) :
      /\ p[i].percent \in 0..100
      /\ p[i].processed_count <= p[i].total_files
      /\ IsRound(p[i].percent, p[i].processed_count, p[i].total_files)
      /\ \A j \in 1..(i - 1) : p[j].percent <= p[i].percent

C7_Witness ==
  \E r \in Requests :
    LET p == ProgressLines(stream[r]) IN
    /\ Len(p) = 2
    /\ p[1].percent = 33 /\ p[2].percent = 67
    /\ \E i \in 1..Len(form[r]) : form[r][i].kind = "string"
    /\ \E i \in 1..Len(form[r]) : form[r][i].kind = "file" /\ ~WithinLimit(form[r][i])

\* ------------------------------------------------------------------ C8
\* once the abort is signalled, a file whose processing has not begun is
\* never read and never written
NoNewFileAfterAbort(r) ==
  \A i \in 1..Len(files[r]) :
    (aborted[r] /\ i \notin readStarted[r]) =>
      (i \notin readStarted'[r] /\ i \notin wrote'[r])

\* processFiles() rejects only when the stream was cancelled under it, and a
\* file whose processing began has its record when the handler ends
AbortIsQuiet(r) ==
  /\ hpc[r] \in {"catchWrite", "catchClose"} => streamState[r] = "errored"
  /\ Ended(r) =>
       \A i \in readStarted[r] :
         \E k \in 1..Len(processedFiles[r]) : processedFiles[r][k].filename = files[r][i].name

\* C8 as claimed: once the abort has been signalled the handler does not
\* throw and closes the response stream: processFiles() never rejects and
\* the handler ends with the stream closed by writer.close().
C8_AbortClosesCleanly ==
  \A r \in Requests :
    /\ aborted[r] => hpc[r] \notin {"catchWrite", "catchClose"}
    /\ (Ended(r) /\ aborted[r]) => streamState[r] = "closed"

\* C8 amended: once the client's abort has been signalled the handler starts
\* no new file and finishes the file in progress; processFiles() rejects only
\* when the disconnect has cancelled the stream under it, and that rejection
\* is caught; the handler eventually ends with the response stream no longer
\* open: closed by writer.close(), or already cancelled by the disconnect.
C8_AbortStopsAndCloses ==
  /\ [][\A r \in Requests : NoNewFileAfterAbort(r)]_vars
  /\ [](\A r \in Requests : AbortIsQuiet(r))
  /\ \A r \in Requests : aborted[r] ~> (Ended(r) /\ streamState[r] \in {"closed", "errored"})

C8_Witness ==
  \E r \in Requests :
    /\ Ended(r) /\ aborted[r]
    /\ streamState[r] = "closed"
    /\ Len(FileIdxSeq(files[r])) = 3
    /\ readStarted[r] = {1}
    /\ wrote[r] = {1}
    /\ Len(ProgressLines(stream[r])) = 1

\* ------------------------------------------------------------------ C9
\* C9: after every submit, whatever its outcome, the client ends with
\* isUploading = false: once every handleSubmit invocation has returned, the
\* component is not left in the uploading state.
C9_NeverStuckUploading ==
  (\A r \in Requests : cpc[r] \in {"none", "done"}) => ~isUploading

\* ------------------------------------------------------------------ C10
InFlight == {r \in Requests : cpc[r] \in {"fetch", "read"}}

\* C10: submit is re-entrancy guarded: at most one upload request of the
\* client is in flight at any time.
C10_AtMostOneInFlight == Cardinality(InFlight) <= 1

\* ------------------------------------------------------------------ C11
\* handleSubmit of request r returned from its read loop: the body was read
\* to its end and nothing was thrown
ReadToEnd(r) ==
  /\ cpc[r] = "done"
  /\ httpStatus[r] = 200
  /\ error = "null"
  /\ rpos[r] = 2 * Len(stream[r])

\* C11: for every submit the completion callback is invoked exactly once if
\* the response stream delivered a complete record and never if it did not;
\* on complete the displayed list is the record's files and the component has
\* left the uploading state.
C11_CallbackOncePerComplete ==
  ReadToEnd(1) =>
    /\ completeCalls = Len(CompleteLines(stream[1]))
    /\ Len(CompleteLines(stream[1])) = 1 =>
         /\ uiProcessedFiles = CompleteLines(stream[1])[1].files
         /\ ~isUploading

\* ------------------------------------------------------------------ C12
\* the number of entries of a displayed list shown as completed
CompletedShown(l) == Len(SelectSeq(l, LAMBDA e : e.status = "completed"))

\* C12: during one upload the displayed processed-file list is monotonic:
\* no step of the component lowers the number of files shown as completed or
\* the length of the displayed list.
C12_DisplayMonotone ==
  [][/\ Len(uiProcessedFiles') >= Len(uiProcessedFiles)
     /\ CompletedShown(uiProcessedFiles') >= CompletedShown(uiProcessedFiles)]_vars

\* ------------------------------------------------------------------ C13
\* the lines of the body of request r that lie wholly inside the chunk from
\* position p to position q: the lines of the chunk that are valid JSON
ValidLines(r, p, q) ==
  SelectSeq([k \in 1..Len(stream[r]) |-> k],
            LAMBDA k : 2 * (k - 1) >= p /\ 2 * k <= q)

\* the list a record makes the component display
ListOf(l) == IF l.type = "progress" THEN l.processed_files ELSE l.files

\* C13: a line that is not valid JSON is skipped without aborting the
\* consumption of the stream: in every chunk, whether or not it holds such
\* lines, every valid line is applied (the display becomes the list of the
\* chunk's last valid record, the callback is called for its complete
\* record), a chunk without a valid record leaves the displayed list as it
\* was, no error is set and the read loop goes on.
C13_MalformedLineSkipped ==
  [][rpos'[1] # rpos[1] =>
       LET V == ValidLines(1, rpos[1], rpos'[1])
           D == SelectSeq(V, LAMBDA k : stream[1][k].type \in {"progress", "complete"})
           C == SelectSeq(V, LAMBDA k : stream[1][k].type = "complete")
       IN /\ error' = error
          /\ cpc'[1] = "read"
          /\ uiProcessedFiles' = IF Len(D) = 0 THEN uiProcessedFiles
                                 ELSE ListOf(stream[1][Last(D)])
          /\ completeCalls' = completeCalls + Len(C)
          /\ isUploading' = (isUploading /\ Len(C) = 0)]_vars

\* a line failed to parse, and the complete record of a two-file upload was
\* applied all the same, with no error set and the read loop still running
C13_Witness ==
  /\ parseFailed
  /\ cpc[1] = "read"
  /\ error = "null"
  /\ completeCalls = 1
  /\ Len(uiProcessedFiles) = 2
  /\ uiProcessedFiles = Last(stream[1]).files

\* ------------------------------------------------------------------ C14
\* C14: while the component is in the uploading state neither a drop nor
\* removeFile changes the pending selection.
C14_SelectionFrozenWhileUploading ==
  [][isUploading => selectedFiles' = selectedFiles]_vars

\* ------------------------------------------------------------------ C15
\* C15: every file of the pending selection is within the size limit, so no
\* oversized file is ever submitted.
C15_SelectionWithinLimit ==
  /\ \A i \in 1..Len(selectedFiles) : WithinLimit(selectedFiles[i])
  /\ \A r \in Requests : \A i \in 1..Len(form[r]) : WithinLimit(form[r][i])

\* ------------------------------------------------------------------ C16
\* The selection only grows at its end, so the File objects of an upload are
\* the entries at the positions they had when the form was built.
HoldsFilesOf(sel, sent) ==
  /\ Len(sent) >= 1
  /\ Len(sel) >= Len(sent)
  /\ SubSeq(sel, 1, Len(sent)) = sent

\* C16: each selected file is sent at most once: after an upload has ended
\* the pending selection no longer holds its files, and a later submit does
\* not send them again.
C16_SentAtMostOnce ==
  /\ \A r \in Requests : cpc[r] = "done" => ~HoldsFilesOf(selectedFiles, form[r])
  /\ \A r, s \in Requests : (r < s /\ cpc[s] # "none") => ~HoldsFilesOf(form[s], form[r])

\* ------------------------------------------------------------------ C17
\* the component's state after the whole body of request r arrived in one chunk
OneChunk(r) ==
  ApplyLines([ui |-> <<>>, up |-> TRUE, calls |-> 0],
             ChunkPieces(stream[r], 0, 2 * Len(stream[r])))

\* C17: however the transport cut the body into read() chunks, the component
\* ends in the state (processed-file list, isUploading, callback count) it
\* ends in when the whole body arrives in one chunk.
C17_ChunkingIndependent ==
  ReadToEnd(1) =>
    [ui |-> uiProcessedFiles, up |-> isUploading, calls |-> completeCalls] = OneChunk(1)

\* ------------------------------------------------------------------ C18
\* list p is the first entries of list c, file by file with the same status
SameSoFar(p, c) ==
  /\ Len(p) <= Len(c)
  /\ \A j \in 1..Len(p) : p[j].filename = c[j].filename /\ p[j].status = c[j].status

\* C18: in every progress record processed_files has exactly processed_count
\* entries, one per file handled so far in processing order, each with the
\* status the final complete record gives that file.
C18_ProgressListCumulative ==
  \A k \in 1..Len(stream[1]) :
    stream[1][k].type = "progress" =>
      /\ Len(stream[1][k].processed_files) = stream[1][k].processed_count
      /\ \A c \in 1..Len(stream[1]) :
           stream[1][c].type = "complete" =>
             SameSoFar(stream[1][k].processed_files, stream[1][c].files)

\* ------------------------------------------------------------------ C19
\* The records request r produces when it runs alone: processFiles read as
\* sequential code over the entries fs, where `failed` are the files whose
\* read or disk write rejects and `started` the files the loop reached
\* before an abort made it break.
RECURSIVE AloneLines(_, _, _, _, _, _)
AloneLines(fs, failed, started, i, count, pf) ==
  IF i > Len(fs) THEN <<[type |-> "complete", status |-> "success", files |-> pf]>>
  ELSE IF fs[i].kind # "file" THEN AloneLines(fs, failed, started, i + 1, count, pf)
  ELSE IF i \notin started THEN <<[type |-> "complete", status |-> "success", files |-> pf]>>
  ELSE IF i \in failed
  THEN AloneLines(fs, failed, started, i + 1, count,
                  Append(pf, [filename |-> fs[i].name, status |-> "failed",
                              message |-> "Failed to process file"]))
  ELSE IF fs[i].size > 5242880
  THEN LET rec == [filename |-> fs[i].name, status |-> "failed",
                   message |-> "File size exceeds limit"]
           dup == [filename |-> fs[i].name, status |-> "completed",
                   message |-> "File processed but failed to upload due to size limit"]
       IN <<[type |-> "progress", current_file |-> fs[i].name,
             processed_count |-> count + 1, total_files |-> Len(fs),
             percent |-> (200 * (count + 1) + Len(fs)) \div (2 * Len(fs)),
             processed_files |-> Append(Append(pf, rec), dup)]>>
          \o AloneLines(fs, failed, started, i + 1, count + 1, Append(pf, rec))
  ELSE LET rec == [filename |-> fs[i].name, status |-> "completed",
                   message |-> "File processed successfully"]
       IN <<[type |-> "progress", current_file |-> fs[i].name,
             processed_count |-> count + 1, total_files |-> Len(fs),
             percent |-> (200 * (count + 1) + Len(fs)) \div (2 * Len(fs)),
             processed_files |-> Append(pf, rec)]>>
          \o AloneLines(fs, failed, started, i + 1, count + 1, Append(pf, rec))

Alone(r) == AloneLines(form[r], ioFail[r], readStarted[r], 1, 0, <<>>)

IsPrefix(s, t) == Len(s) <= Len(t) /\ SubSeq(t, 1, Len(s)) = s

\* what request r has written is what it writes alone, and all of it once
\* its stream is closed
SameAsAlone(r) ==
  /\ IsPrefix(stream[r], Alone(r))
  /\ streamState[r] = "closed" => stream[r] = Alone(r)

\* a step touches the handler state of one request only
OneRequestPerStep ==
  \E r \in Requests : \A s \in Requests \ {r} :
    /\ hpc'[s] = hpc[s] /\ idx'[s] = idx[s] /\ files'[s] = files[s]
    /\ processedFiles'[s] = processedFiles[s]
    /\ processedCount'[s] = processedCount[s]
    /\ stream'[s] = stream[s] /\ streamState'[s] = streamState[s]
    /\ aborted'[s] = aborted[s]

\* the destination directory holds, for each name, the last successful write
LaterWriteWins ==
  /\ \A r \in Requests :
       wrote'[r] # wrote[r] => disk'[files[r][idx[r]].name] = <<r, idx[r]>>
  /\ \A n \in FileNames :
       disk'[n] # disk[n] =>
         \E r \in Requests : /\ wrote'[r] # wrote[r]
                             /\ files[r][idx[r]].name = n

\* C19: concurrent requests do not interfere through handler state: under
\* every interleaving of the steps of two requests each request's sequence of
\* progress and complete records is the one it produces alone; the only
\* shared state is the destination directory, where for two writes of the
\* same filename the later write is what remains.
C19_RequestsIndependent ==
  /\ [](\A r \in Requests : SameAsAlone(r))
  /\ [][OneRequestPerStep /\ LaterWriteWins]_vars

\* both requests are in flight and have written a file of the same name:
\* request 2 has sent its progress record and request 1, whose write came
\* later, has not yet, and the directory holds the write of request 1
C19_Witness ==
  /\ hpc[1] = "writeProgress" /\ hpc[2] = "writeComplete"
  /\ wrote[1] = {1} /\ wrote[2] = {1}
  /\ form[1][1].name = form[2][1].name
  /\ disk[form[1][1].name] = <<1, 1>>
  /\ Len(stream[1]) = 0 /\ Len(stream[2]) = 1
  /\ stream[2][1].processed_count = 1

\* ------------------------------------------------------------------ C20
\* the handler of request r answered with a stream and has finished
StreamEnded(r) == Ended(r) /\ httpStatus[r] = 200

\* C20: every opened response stream is eventually closed by the handler:
\* when the handler has finished the writer is closed, and if an exception
\* escaped batch processing (no complete record was written) the stream
\* carries exactly one error record.
C20_ClosedWithCompleteOrError ==
  StreamEnded(1) =>
    /\ streamState[1] = "closed"
    /\ Len(CompleteLines(stream[1])) = 0 => Len(ErrorLines(stream[1])) = 1

\* C20, as the code has it: an opened stream never stays open: the handler
\* finishes, and then the stream is either closed by the handler, with the
\* complete record as its last line, or was cancelled by the transport; the
\* exceptions that escape batch processing are the rejected writes to a
\* cancelled stream, after which the error record cannot be written either,
\* so the stream carries no error record; the rejection is caught.
C20_StreamNeverLeftOpen ==
  /\ [](StreamEnded(1) =>
          /\ streamState[1] \in {"closed", "errored"}
          /\ streamState[1] = "closed" =>
               /\ Len(stream[1]) >= 1
               /\ Last(stream[1]).type = "complete"
          /\ streamState[1] = "errored" => disconnected[1]
          /\ Len(ErrorLines(stream[1])) = 0)
  /\ [](hpc[1] \in {"catchWrite", "catchClose"} => streamState[1] = "errored")
  /\ (streamState[1] = "open") ~> StreamEnded(1)

\* the write of the complete record was rejected on a cancelled stream after
\* one file was processed, and the handler has finished all the same
C20_Witness ==
  /\ StreamEnded(1)
  /\ streamState[1] = "errored"
  /\ Len(CompleteLines(stream[1])) = 0
  /\ Len(ProgressLines(stream[1])) = 1
  /\ Len(processedFiles[1]) = 1

====
